---- MODULE Spec2Model ----
(***************************************************************************)
(* Booking subsystem of the Vehicle Rental System backend.                 *)
(*                                                                         *)
(* The store is the PostgreSQL tables `vehicles` and `bookings`.  Every    *)
(* HTTP request is served by an async handler; each `await pool.query`     *)
(* is one atomic statement against the store, and the JavaScript between   *)
(* two awaits runs without interruption.  An action of the model is one    *)
(* statement together with the JavaScript that follows it up to the next   *)
(* statement.  Requests in flight are the elements of Procs.               *)
(*                                                                         *)
(* A date string of a request body is the record [day, hour]: JavaScript   *)
(* parses it to an instant in milliseconds (JSTime), PostgreSQL casts it   *)
(* to a DATE and drops the time of day (PgDate).                           *)
(***************************************************************************)
EXTENDS Integers, Sequences, FiniteSets, TLC

\* ------------------------------------------------------------------ bounds
MaxDay == 3
MaxBookings == 2

\* request slots: the requests that can be in flight at the same time
Procs == {"r1", "r2"}

\* the slot that serves the requests that arrive one after the other
SeqProcs == {"r1"}

\* --------------------------------------------------------------- constants
MsPerHour == 1000 * 60 * 60
MsPerDay == 1000 * 60 * 60 * 24

\* users table: id -> role (id 1 is the seeded admin)
Users == <<"admin", "customer", "customer">>
UserIds == 1 .. Len(Users)
CustomerIds == {u \in UserIds : Users[u] = "customer"}

\* vehicles table at start: id -> row
InitVehicles ==
  (1 :> [id |-> 1, daily_rent_price |-> 50, availability_status |-> "available"])
  @@ (2 :> [id |-> 2, daily_rent_price |-> 30, availability_status |-> "available"])

\* a field the request body does not carry (falsy in JavaScript)
NoId == 0
NoDate == [day |-> 0, hour |-> 0]
NoPrice == 0
NoStatus == ""

\* the date string of day d, hour h
D(d, h) == [day |-> d, hour |-> h]

VARIABLES vehicles, bookings, bookings_id_seq, today, pc, loc

vars == <<vehicles, bookings, bookings_id_seq, today, pc, loc>>

\* ------------------------------------------------------------ conversions
\* new Date(str).getTime()
JSTime(s) == s.day * MsPerDay + s.hour * MsPerHour

\* a text parameter used as a DATE by PostgreSQL
PgDate(s) == s.day

\* Math.floor(a / b) in place of Math.ceil(a / b)
MathFloorDiv(a, b) == a \div b

\* Math.ceil(a / b) for a > 0
MathCeilDiv(a, b) == (a + b - 1) \div b

\* ----------------------------------------------------------------- store
NoRow == [id |-> 0]
NoData == [customer_id |-> NoId, vehicle_id |-> NoId, rent_start_date |-> NoDate,
           rent_end_date |-> NoDate, total_price |-> NoPrice, status |-> NoStatus]
NoResult == [code |-> 0, message |-> "", data |-> <<>>]

\* the locals of a handler: req.user, req.body / data, req.params.bookingId,
\* vehicle, total_price, booking, expired.rows, the rows the loop over
\* expired.rows has yet to visit (or updated.rows), the response
IdleLoc == [op |-> "none", user |-> 0, data |-> NoData, bookingId |-> 0,
            vehicle |-> NoRow, total_price |-> 0, booking |-> NoRow,
            expired |-> <<>>, rows |-> <<>>, result |-> NoResult]

Role(u) == Users[u]

\* SELECT * FROM vehicles WHERE id = $1
SelectVehicle(vehicle_id) ==
  IF vehicle_id \in DOMAIN vehicles THEN <<vehicles[vehicle_id]>> ELSE <<>>

\* SELECT * FROM bookings WHERE id = $1
SelectBooking(bookingId) ==
  SelectSeq(bookings, LAMBDA b : b.id = bookingId)

\* UPDATE vehicles SET availability_status = $status WHERE id = $1
SetAvailability(vs, vehicle_id, status) ==
  IF vehicle_id \in DOMAIN vs
    THEN [vs EXCEPT ![vehicle_id].availability_status = status]
    ELSE vs

\* an UPDATE bookings that sets total_price along with status
SetStatusAndPrice(bs, bookingId, status) ==
  [i \in 1 .. Len(bs) |->
     IF bs[i].id = bookingId
       THEN [bs[i] EXCEPT !.status = status, !.total_price = 1]
       ELSE bs[i]]

\* UPDATE bookings SET status = $status WHERE id = $1
SetStatus(bs, bookingId, status) ==
  [i \in 1 .. Len(bs) |->
     IF bs[i].id = bookingId THEN [bs[i] EXCEPT !.status = status] ELSE bs[i]]

TypeOK ==
  /\ today \in 1 .. MaxDay
  /\ bookings_id_seq \in 0 .. MaxBookings
  /\ Len(bookings) <= bookings_id_seq
  /\ \A p \in Procs : pc[p] = "idle" <=> loc[p] = IdleLoc

Init ==
  /\ vehicles = InitVehicles
  /\ bookings = <<>>
  /\ bookings_id_seq = 0
  /\ today = 1
  /\ pc = [p \in Procs |-> "idle"]
  /\ loc = [p \in Procs |-> IdleLoc]

\* the clock of the host and of the database moves to the next day
Tick ==
  /\ today < MaxDay
  /\ today' = today + 1
  /\ UNCHANGED <<vehicles, bookings, bookings_id_seq, pc, loc>>

\* res.status(code).json({success, message, data}): the request is answered
Respond(l, code, message, data) ==
  [l EXCEPT !.result = [code |-> code, message |-> message, data |-> data]]

\* ------------------------------------------------------- POST /bookings
\* rental periods of the requests: <<rent_start_date, rent_end_date>>
WholeDay == <<D(1, 0), D(2, 0)>>
LaterDays == <<D(2, 0), D(3, 12)>>
LongStay == <<D(1, 12), D(4, 0)>>
SameDay == <<D(1, 0), D(1, 12)>>
Backwards == <<D(2, 0), D(1, 0)>>
NoEnd == <<D(1, 0), NoDate>>

CreateBody(customer_id, vehicle_id, period, total_price) ==
  [customer_id |-> customer_id, vehicle_id |-> vehicle_id,
   rent_start_date |-> period[1], rent_end_date |-> period[2],
   total_price |-> total_price, status |-> NoStatus]

\* POST requests, the authenticated user and the body: those of the admin and
\* of customer 2, and one of customer 3 that names customer 2 in its body
CreateRequests ==
  {[user |-> u, body |-> CreateBody(c, v, period, t)] :
     u \in {1, 2}, c \in {NoId, 2}, v \in {1, 2, 3},
     period \in {WholeDay, LaterDays, LongStay, SameDay, Backwards, NoEnd},
     t \in {NoPrice, 7}}
  \cup {[user |-> 3, body |-> CreateBody(2, 2, WholeDay, NoPrice)]}

\* the POST requests of the concurrent runs: customer 2 books vehicle 1
ConcCreateRequests ==
  {[user |-> 2, body |-> CreateBody(NoId, 1, period, NoPrice)] :
     period \in {WholeDay, LaterDays, LongStay}}

\* the overlap test of the SELECT in createBookings, with
\* $2 = rent_end_date and $3 = rent_start_date of the request
OverlapCheckPredicate(b, p2, p3) ==
  ~ (PgDate(p3) <= b.rent_start_date \/ PgDate(p2) >= b.rent_end_date)

\* the overlap query without status = 'active'
OverlapCheckAnyStatus(vehicle_id, p2, p3) ==
  SelectSeq(bookings, LAMBDA b : /\ b.vehicle_id = vehicle_id
                                 /\ OverlapCheckPredicate(b, p2, p3))

\* SELECT id FROM bookings WHERE vehicle_id = $1 AND status = 'active' AND NOT (...)
OverlapCheck(vehicle_id, p2, p3) ==
  SelectSeq(bookings, LAMBDA b : /\ b.vehicle_id = vehicle_id
                                 /\ b.status = "active"
                                 /\ OverlapCheckPredicate(b, p2, p3))

\* days = Math.ceil((end.getTime() - start.getTime()) / (1000 * 60 * 60 * 24))
Days(start, end) == MathCeilDiv(JSTime(end) - JSTime(start), MsPerDay)

\* total_price = days * Number(vehicle.daily_rent_price)
TotalPrice(data, vehicle) ==
  Days(data.rent_start_date, data.rent_end_date) * vehicle.daily_rent_price

\* the row an INSERT INTO bookings builds from its parameters
BookingRow(id, data, total_price) ==
  [id |-> id, customer_id |-> data.customer_id, vehicle_id |-> data.vehicle_id,
   rent_start_date |-> PgDate(data.rent_start_date),
   rent_end_date |-> PgDate(data.rent_end_date),
   total_price |-> total_price, status |-> "active"]

\* the bookings table without CHECK(rent_end_date > rent_start_date)
BookingConstraintsNoDateCheck(row) ==
  /\ row.customer_id \in UserIds
  /\ row.vehicle_id \in DOMAIN vehicles
  /\ row.total_price > 0
  /\ row.status \in {"active", "cancelled", "returned"}

\* the constraints of the bookings table: the foreign keys and the CHECKs
BookingConstraints(row) ==
  /\ row.customer_id \in UserIds
  /\ row.vehicle_id \in DOMAIN vehicles
  /\ row.rent_end_date > row.rent_start_date
  /\ row.total_price > 0
  /\ row.status \in {"active", "cancelled", "returned"}

\* createBookings with customer_id taken from the body for every role
CreateStartBodyCustomer(p, reqs) ==
  /\ pc[p] = "idle"
  /\ \E req \in reqs :
       LET data == req.body
           l == [IdleLoc EXCEPT !.op = "create", !.user = req.user, !.data = data]
           vehicleRes == SelectVehicle(data.vehicle_id)
           fail(m) == /\ pc' = [pc EXCEPT ![p] = "done"]
                      /\ loc' = [loc EXCEPT ![p] = Respond(l, 400, m, <<>>)]
       IN  IF \/ data.customer_id = NoId \/ data.vehicle_id = NoId
              \/ data.rent_start_date = NoDate \/ data.rent_end_date = NoDate
             THEN fail("Missing required fields")
           ELSE IF JSTime(data.rent_end_date) <= JSTime(data.rent_start_date)
             THEN fail("Invalid rental dates")
           ELSE IF Len(vehicleRes) = 0
             THEN fail("Vehicle not found")
           ELSE IF vehicleRes[1].availability_status # "available"
             THEN fail("Vehicle is not available")
           ELSE /\ pc' = [pc EXCEPT ![p] = "c_overlap"]
                /\ loc' = [loc EXCEPT ![p] = [l EXCEPT !.vehicle = vehicleRes[1]]]
  /\ UNCHANGED <<vehicles, bookings, bookings_id_seq, today>>

\* controller createBookings, then the service up to its overlap query:
\* required fields, date order, vehicle lookup, availability
CreateStart(p, reqs) ==
  /\ pc[p] = "idle"
  /\ \E req \in reqs :
       LET data == [req.body EXCEPT !.customer_id =
                      IF Role(req.user) = "customer" THEN req.user
                                                     ELSE req.body.customer_id]
           l == [IdleLoc EXCEPT !.op = "create", !.user = req.user, !.data = data]
           vehicleRes == SelectVehicle(data.vehicle_id)
           fail(m) == /\ pc' = [pc EXCEPT ![p] = "done"]
                      /\ loc' = [loc EXCEPT ![p] = Respond(l, 400, m, <<>>)]
       IN  IF \/ data.customer_id = NoId \/ data.vehicle_id = NoId
              \/ data.rent_start_date = NoDate \/ data.rent_end_date = NoDate
             THEN fail("Missing required fields")
           ELSE IF JSTime(data.rent_end_date) <= JSTime(data.rent_start_date)
             THEN fail("Invalid rental dates")
           ELSE IF Len(vehicleRes) = 0
             THEN fail("Vehicle not found")
           ELSE IF vehicleRes[1].availability_status # "available"
             THEN fail("Vehicle is not available")
           ELSE /\ pc' = [pc EXCEPT ![p] = "c_overlap"]
                /\ loc' = [loc EXCEPT ![p] = [l EXCEPT !.vehicle = vehicleRes[1]]]
  /\ UNCHANGED <<vehicles, bookings, bookings_id_seq, today>>

\* the overlap query and the price computation
CreateOverlapCheck(p) ==
  /\ pc[p] = "c_overlap"
  /\ LET l == loc[p]
         overlapCheck == OverlapCheck(l.data.vehicle_id, l.data.rent_end_date,
                                      l.data.rent_start_date)
     IN  IF Len(overlapCheck) > 0
           THEN /\ pc' = [pc EXCEPT ![p] = "done"]
                /\ loc' = [loc EXCEPT ![p] =
                     Respond(l, 400, "Vehicle already booked for selected dates", <<>>)]
           ELSE /\ pc' = [pc EXCEPT ![p] = "c_insert"]
                /\ loc' = [loc EXCEPT ![p].total_price = TotalPrice(l.data, l.vehicle)]
  /\ UNCHANGED <<vehicles, bookings, bookings_id_seq, today>>

\* INSERT INTO bookings ... RETURNING *; the serial id is consumed even when a
\* constraint rejects the row
CreateInsert(p) ==
  /\ pc[p] = "c_insert"
  /\ bookings_id_seq < MaxBookings
  /\ LET l == loc[p]
         row == BookingRow(bookings_id_seq + 1, l.data, l.total_price)
     IN  /\ bookings_id_seq' = bookings_id_seq + 1
         /\ IF BookingConstraints(row)
              THEN /\ bookings' = Append(bookings, row)
                   /\ pc' = [pc EXCEPT ![p] = "c_reserve"]
                   /\ loc' = [loc EXCEPT ![p].booking = row]
              ELSE /\ bookings' = bookings
                   /\ pc' = [pc EXCEPT ![p] = "done"]
                   /\ loc' = [loc EXCEPT ![p] =
                        Respond(l, 400, "violates check constraint", <<>>)]
  /\ UNCHANGED <<vehicles, today>>

\* an UPDATE vehicles SET availability_status = 'booked' without its WHERE
CreateReserveEveryVehicle(p) ==
  /\ pc[p] = "c_reserve"
  /\ vehicles' = [v \in DOMAIN vehicles |->
                    [vehicles[v] EXCEPT !.availability_status = "booked"]]
  /\ pc' = [pc EXCEPT ![p] = "done"]
  /\ loc' = [loc EXCEPT ![p] =
       Respond(loc[p], 201, "Booking created successfully", <<loc[p].booking>>)]
  /\ UNCHANGED <<bookings, bookings_id_seq, today>>

\* UPDATE vehicles SET availability_status = 'booked'; then 201 with the row
CreateReserve(p) ==
  /\ pc[p] = "c_reserve"
  /\ vehicles' = SetAvailability(vehicles, loc[p].data.vehicle_id, "booked")
  /\ pc' = [pc EXCEPT ![p] = "done"]
  /\ loc' = [loc EXCEPT ![p] =
       Respond(loc[p], 201, "Booking created successfully", <<loc[p].booking>>)]
  /\ UNCHANGED <<bookings, bookings_id_seq, today>>

\* ------------------------------------------- PUT /bookings/:bookingId
\* PUT requests: the authenticated user, the booking id and the body
UpdateRequests ==
  {[user |-> u, bookingId |-> b, status |-> st] :
     u \in UserIds, b \in 1 .. MaxBookings + 1,
     st \in {"cancelled", "returned", "active", NoStatus}}

\* the PUT requests of the concurrent runs
ConcUpdateRequests ==
  {r \in UpdateRequests : /\ r.bookingId <= MaxBookings
                          /\ r.status = IF Role(r.user) = "customer"
                                          THEN "cancelled" ELSE "returned"}

\* today > startDate in place of today >= startDate
RentalStartedStrict(now, rent_start_date) == now > rent_start_date

\* today >= startDate, with today = new Date() and startDate the midnight
\* that starts day rent_start_date
RentalStarted(now, rent_start_date) == now >= rent_start_date

\* the controller without its ownership check
UpdateStartAnyOwner(p, reqs) ==
  /\ pc[p] = "idle"
  /\ \E req \in reqs :
       LET l == [IdleLoc EXCEPT !.op = "update", !.user = req.user,
                                !.bookingId = req.bookingId,
                                !.data = [NoData EXCEPT !.status = req.status]]
           existing == SelectBooking(req.bookingId)
       IN  IF Len(existing) = 0
             THEN /\ pc' = [pc EXCEPT ![p] = "done"]
                  /\ loc' = [loc EXCEPT ![p] = Respond(l, 404, "Booking not found", <<>>)]
           ELSE /\ pc' = [pc EXCEPT ![p] = "u_service"]
                /\ loc' = [loc EXCEPT ![p] = l]
  /\ UNCHANGED <<vehicles, bookings, bookings_id_seq, today>>

\* controller updateBookings: getBookingById, 404, the ownership check
UpdateStart(p, reqs) ==
  /\ pc[p] = "idle"
  /\ \E req \in reqs :
       LET l == [IdleLoc EXCEPT !.op = "update", !.user = req.user,
                                !.bookingId = req.bookingId,
                                !.data = [NoData EXCEPT !.status = req.status]]
           existing == SelectBooking(req.bookingId)
           fail(c, m) == /\ pc' = [pc EXCEPT ![p] = "done"]
                         /\ loc' = [loc EXCEPT ![p] = Respond(l, c, m, <<>>)]
       IN  IF Len(existing) = 0
             THEN fail(404, "Booking not found")
           ELSE IF Role(req.user) = "customer" /\ existing[1].customer_id # req.user
             THEN fail(403, "Forbidden: You can only update your own booking")
           ELSE /\ pc' = [pc EXCEPT ![p] = "u_service"]
                /\ loc' = [loc EXCEPT ![p] = l]
  /\ UNCHANGED <<vehicles, bookings, bookings_id_seq, today>>

\* the throws of updateBookings without the tests of data.status
UpdateRuleAnyStatus(role, status, now, bookingRes) ==
  IF Len(bookingRes) = 0 THEN "Booking not found"
  ELSE IF role = "customer"
    THEN IF now >= bookingRes[1].rent_start_date
           THEN "Cannot cancel after rental has started"
         ELSE ""
  ELSE IF role = "admin" THEN ""
  ELSE "Invalid operation"

\* the throw of service updateBookings that applies, "" when none does
UpdateRule(role, status, now, bookingRes) ==
  IF Len(bookingRes) = 0 THEN "Booking not found"
  ELSE IF role = "customer"
    THEN IF status # "cancelled" THEN "Customer can only cancel booking"
         ELSE IF RentalStarted(now, bookingRes[1].rent_start_date)
           THEN "Cannot cancel after rental has started"
         ELSE ""
  ELSE IF role = "admin"
    THEN IF status # "returned" THEN "Admin can only mark booking as returned"
         ELSE ""
  ELSE "Invalid operation"

\* updateBookings with the cancel written before the start date is tested
UpdateServiceWriteFirst(p) ==
  /\ pc[p] = "u_service"
  /\ LET l == loc[p]
         bookingRes == SelectBooking(l.bookingId)
         m == UpdateRule(Role(l.user), l.data.status, today, bookingRes)
     IN  IF m # ""
           THEN /\ pc' = [pc EXCEPT ![p] = "done"]
                /\ loc' = [loc EXCEPT ![p] = Respond(l, 400, m, <<>>)]
                /\ bookings' = IF m = "Cannot cancel after rental has started"
                                 THEN [i \in 1 .. Len(bookings) |->
                                         IF bookings[i].id = l.bookingId
                                           THEN [bookings[i] EXCEPT !.status = "cancelled"]
                                           ELSE bookings[i]]
                                 ELSE bookings
           ELSE /\ pc' = [pc EXCEPT ![p] = "u_status"]
                /\ loc' = [loc EXCEPT ![p].booking = bookingRes[1]]
                /\ bookings' = bookings
  /\ UNCHANGED <<vehicles, bookings_id_seq, today>>

\* service updateBookings up to its UPDATE: the lookup and the role rules
UpdateService(p) ==
  /\ pc[p] = "u_service"
  /\ LET l == loc[p]
         bookingRes == SelectBooking(l.bookingId)
         m == UpdateRule(Role(l.user), l.data.status, today, bookingRes)
     IN  IF m # ""
           THEN /\ pc' = [pc EXCEPT ![p] = "done"]
                /\ loc' = [loc EXCEPT ![p] = Respond(l, 400, m, <<>>)]
           ELSE /\ pc' = [pc EXCEPT ![p] = "u_status"]
                /\ loc' = [loc EXCEPT ![p].booking = bookingRes[1]]
  /\ UNCHANGED <<vehicles, bookings, bookings_id_seq, today>>

\* both branches of updateBookings with SET status = 'cancelled'
BranchStatusCancelled(role) == "cancelled"

\* the status the UPDATE of the role's branch writes
BranchStatus(role) == IF role = "customer" THEN "cancelled" ELSE "returned"

\* UPDATE bookings SET status = ... WHERE id = $1 RETURNING *
UpdateStatus(p) ==
  /\ pc[p] = "u_status"
  /\ bookings' = SetStatus(bookings, loc[p].bookingId, BranchStatus(Role(loc[p].user)))
  /\ pc' = [pc EXCEPT ![p] = "u_vehicle"]
  /\ loc' = [loc EXCEPT ![p].rows =
       SelectSeq(bookings', LAMBDA b : b.id = loc[p].bookingId)]
  /\ UNCHANGED <<vehicles, bookings_id_seq, today>>

\* updateBookings without its UPDATE of the vehicle
UpdateVehicleNoWrite(p) ==
  /\ pc[p] = "u_vehicle"
  /\ vehicles' = vehicles
  /\ pc' = [pc EXCEPT ![p] = "done"]
  /\ loc' = [loc EXCEPT ![p] =
       Respond(loc[p], 200, "Booking updated successfully", loc[p].rows)]
  /\ UNCHANGED <<bookings, bookings_id_seq, today>>

\* UPDATE vehicles SET availability_status = 'available'; then 200 with the row
UpdateVehicle(p) ==
  /\ pc[p] = "u_vehicle"
  /\ vehicles' = SetAvailability(vehicles, loc[p].booking.vehicle_id, "available")
  /\ pc' = [pc EXCEPT ![p] = "done"]
  /\ loc' = [loc EXCEPT ![p] =
       Respond(loc[p], 200, "Booking updated successfully", loc[p].rows)]
  /\ UNCHANGED <<bookings, bookings_id_seq, today>>

\* -------------------------------------------------------- GET /bookings
\* WHERE rent_end_date < CURRENT_DATE, without the test of the status
ExpiredAnyStatus(b, current_date) == b.rent_end_date < current_date

\* WHERE status = 'active' AND rent_end_date < CURRENT_DATE
Expired(b, current_date) == b.status = "active" /\ b.rent_end_date < current_date

\* the UPDATE of the sweep with rent_end_date <= CURRENT_DATE
SweepBookingsEndingToday(bs, current_date) ==
  [i \in 1 .. Len(bs) |->
     IF bs[i].status = "active" /\ bs[i].rent_end_date <= current_date
       THEN [bs[i] EXCEPT !.status = "returned"]
       ELSE bs[i]]

\* a sweep whose UPDATE changes no row
SweepBookingsNoRow(bs, current_date) == bs

\* autoReturnExpiredBookings, its first statement:
\* UPDATE bookings SET status = 'returned' WHERE ... RETURNING vehicle_id
SweepBookings(bs, current_date) ==
  [i \in 1 .. Len(bs) |->
     IF Expired(bs[i], current_date) THEN [bs[i] EXCEPT !.status = "returned"]
                                     ELSE bs[i]]

\* expired.rows: one row per booking the UPDATE changed
SweepRows(bs, current_date) ==
  LET hit == SelectSeq(bs, LAMBDA b : Expired(b, current_date))
  IN  [i \in 1 .. Len(hit) |-> hit[i].vehicle_id]

\* ORDER BY b.id DESC
Reverse(sq) == [i \in 1 .. Len(sq) |-> sq[Len(sq) + 1 - i]]

\* the SELECT of getAllBookings
AllBookings == Reverse(bookings)

\* the SELECT of getBookingsByCustomer without its WHERE
BookingsOfAnyCustomer(customerId) ==
  LET own == Reverse(bookings)
  IN  [i \in 1 .. Len(own) |->
         [id |-> own[i].id, vehicle_id |-> own[i].vehicle_id,
          rent_start_date |-> own[i].rent_start_date,
          rent_end_date |-> own[i].rent_end_date,
          total_price |-> own[i].total_price, status |-> own[i].status]]

\* the SELECT of getBookingsByCustomer: WHERE b.customer_id = $1
BookingsByCustomer(customerId) ==
  LET own == Reverse(SelectSeq(bookings, LAMBDA b : b.customer_id = customerId))
  IN  [i \in 1 .. Len(own) |->
         [id |-> own[i].id, vehicle_id |-> own[i].vehicle_id,
          rent_start_date |-> own[i].rent_start_date,
          rent_end_date |-> own[i].rent_end_date,
          total_price |-> own[i].total_price, status |-> own[i].status]]

\* a listing that runs the sweep for an admin only
ListStartAdminSweep(p, users) ==
  /\ pc[p] = "idle"
  /\ \E u \in users :
       LET rows == IF Role(u) = "admin" THEN SweepRows(bookings, today) ELSE <<>>
       IN  /\ bookings' = IF Role(u) = "admin" THEN SweepBookings(bookings, today)
                                               ELSE bookings
           /\ pc' = [pc EXCEPT ![p] = IF Len(rows) = 0 THEN "l_select"
                                                       ELSE "s_vehicles"]
           /\ loc' = [loc EXCEPT ![p] =
                [IdleLoc EXCEPT !.op = "list", !.user = u,
                                !.expired = rows, !.rows = rows]]
  /\ UNCHANGED <<vehicles, bookings_id_seq, today>>

\* a listing whose sweep, for a customer, takes that customer's bookings only
ListStartOwnSweep(p, users) ==
  /\ pc[p] = "idle"
  /\ \E u \in users :
       LET mine(b) == Role(u) = "admin" \/ b.customer_id = u
           hit == SelectSeq(bookings, LAMBDA b : Expired(b, today) /\ mine(b))
           rows == [i \in 1 .. Len(hit) |-> hit[i].vehicle_id]
       IN  /\ bookings' = [i \in 1 .. Len(bookings) |->
                             IF Expired(bookings[i], today) /\ mine(bookings[i])
                               THEN [bookings[i] EXCEPT !.status = "returned"]
                               ELSE bookings[i]]
           /\ pc' = [pc EXCEPT ![p] = IF Len(rows) = 0 THEN "l_select"
                                                       ELSE "s_vehicles"]
           /\ loc' = [loc EXCEPT ![p] =
                [IdleLoc EXCEPT !.op = "list", !.user = u,
                                !.expired = rows, !.rows = rows]]
  /\ UNCHANGED <<vehicles, bookings_id_seq, today>>

\* controller getBookings, then the UPDATE of autoReturnExpiredBookings
ListStart(p, users) ==
  /\ pc[p] = "idle"
  /\ \E u \in users :
       LET rows == SweepRows(bookings, today)
       IN  /\ bookings' = SweepBookings(bookings, today)
           /\ pc' = [pc EXCEPT ![p] = IF Len(rows) = 0 THEN "l_select"
                                                       ELSE "s_vehicles"]
           /\ loc' = [loc EXCEPT ![p] =
                [IdleLoc EXCEPT !.op = "list", !.user = u,
                                !.expired = rows, !.rows = rows]]
  /\ UNCHANGED <<vehicles, bookings_id_seq, today>>

\* the loop over expired.rows left after its first turn
SweepVehicleOnce(p) ==
  /\ pc[p] = "s_vehicles"
  /\ vehicles' = SetAvailability(vehicles, Head(loc[p].rows), "available")
  /\ pc' = [pc EXCEPT ![p] = "l_select"]
  /\ loc' = [loc EXCEPT ![p].rows = <<>>]
  /\ UNCHANGED <<bookings, bookings_id_seq, today>>

\* one turn of the loop over expired.rows:
\* UPDATE vehicles SET availability_status = 'available' WHERE id = row.vehicle_id
SweepVehicle(p) ==
  /\ pc[p] = "s_vehicles"
  /\ vehicles' = SetAvailability(vehicles, Head(loc[p].rows), "available")
  /\ pc' = [pc EXCEPT ![p] = IF Len(loc[p].rows) = 1 THEN "l_select"
                                                     ELSE "s_vehicles"]
  /\ loc' = [loc EXCEPT ![p].rows = Tail(loc[p].rows)]
  /\ UNCHANGED <<bookings, bookings_id_seq, today>>

\* the SELECT of the listing; then 200 with its rows
ListSelect(p) ==
  /\ pc[p] = "l_select"
  /\ pc' = [pc EXCEPT ![p] = "done"]
  /\ loc' = [loc EXCEPT ![p] =
       Respond(loc[p], 200, "Bookings fetched successfully",
               IF Role(loc[p].user) = "admin" THEN AllBookings
                                              ELSE BookingsByCustomer(loc[p].user))]
  /\ UNCHANGED <<vehicles, bookings, bookings_id_seq, today>>

\* the response has been sent; the slot serves the next request
Return(p) ==
  /\ pc[p] = "done"
  /\ pc' = [pc EXCEPT ![p] = "idle"]
  /\ loc' = [loc EXCEPT ![p] = IdleLoc]
  /\ UNCHANGED <<vehicles, bookings, bookings_id_seq, today>>

\* ------------------------------------------- DELETE /vehicles/:vehicleId
\* DELETE requests: req.params.vehicleId
DeleteRequests == {1, 2, 3}

\* SELECT * FROM bookings WHERE vehicle_id = $1 AND status = 'active'
BookingCheck(vehicleId) ==
  SelectSeq(bookings, LAMBDA b : b.vehicle_id = vehicleId /\ b.status = "active")

\* bookings.vehicle_id REFERENCES vehicles(id): a vehicle some booking row
\* references cannot be deleted
ReferencedByBooking(vehicleId) ==
  \E i \in 1 .. Len(bookings) : bookings[i].vehicle_id = vehicleId

\* DELETE FROM vehicles WHERE id = $1
DeleteRow(vs, vehicleId) == [v \in DOMAIN vs \ {vehicleId} |-> vs[v]]

\* controller and service deleteVehicleById up to the DELETE: the check for
\* active bookings
DeleteStart(p, ids) ==
  /\ pc[p] = "idle"
  /\ \E vehicleId \in ids :
       LET l == [IdleLoc EXCEPT !.op = "delete",
                                !.data = [NoData EXCEPT !.vehicle_id = vehicleId]]
           bookingCheck == BookingCheck(vehicleId)
       IN  IF Len(bookingCheck) > 0
             THEN /\ pc' = [pc EXCEPT ![p] = "done"]
                  /\ loc' = [loc EXCEPT ![p] =
                       Respond(l, 400, "Vehicle has active bookings", <<>>)]
             ELSE /\ pc' = [pc EXCEPT ![p] = "d_delete"]
                  /\ loc' = [loc EXCEPT ![p] = l]
  /\ UNCHANGED <<vehicles, bookings, bookings_id_seq, today>>

\* the DELETE with the foreign key of bookings.vehicle_id left out
DeleteVehicleNoForeignKey(p) ==
  /\ pc[p] = "d_delete"
  /\ LET l == loc[p]
         vehicleId == l.data.vehicle_id
     IN  IF vehicleId \notin DOMAIN vehicles
           THEN /\ vehicles' = vehicles
                /\ loc' = [loc EXCEPT ![p] = Respond(l, 404, "Vehicle not found", <<>>)]
         ELSE /\ vehicles' = DeleteRow(vehicles, vehicleId)
              /\ loc' = [loc EXCEPT ![p] =
                   Respond([l EXCEPT !.vehicle = vehicles[vehicleId]], 200,
                           "Vehicle deleted successfully", <<>>)]
  /\ pc' = [pc EXCEPT ![p] = "done"]
  /\ UNCHANGED <<bookings, bookings_id_seq, today>>

\* DELETE FROM vehicles WHERE id = $1 RETURNING *; then 200 with the row, 404
\* when no row was deleted, 500 when the statement fails
DeleteVehicle(p) ==
  /\ pc[p] = "d_delete"
  /\ LET l == loc[p]
         vehicleId == l.data.vehicle_id
     IN  IF ReferencedByBooking(vehicleId)
           THEN /\ vehicles' = vehicles
                /\ loc' = [loc EXCEPT ![p] =
                     Respond(l, 500, "Internal server error", <<>>)]
         ELSE IF vehicleId \notin DOMAIN vehicles
           THEN /\ vehicles' = vehicles
                /\ loc' = [loc EXCEPT ![p] = Respond(l, 404, "Vehicle not found", <<>>)]
         ELSE /\ vehicles' = DeleteRow(vehicles, vehicleId)
              /\ loc' = [loc EXCEPT ![p] =
                   Respond([l EXCEPT !.vehicle = vehicles[vehicleId]], 200,
                           "Vehicle deleted successfully", <<>>)]
  /\ pc' = [pc EXCEPT ![p] = "done"]
  /\ UNCHANGED <<bookings, bookings_id_seq, today>>

\* requests served concurrently: any interleaving of their statements
Next ==
  \/ Tick
  \/ \E p \in Procs :
       \/ CreateStart(p, ConcCreateRequests)
       \/ CreateOverlapCheck(p)
       \/ CreateInsert(p)
       \/ CreateReserve(p)
       \/ UpdateStart(p, ConcUpdateRequests)
       \/ UpdateService(p)
       \/ UpdateStatus(p)
       \/ UpdateVehicle(p)
       \/ ListStart(p, {1})
       \/ SweepVehicle(p)
       \/ ListSelect(p)
       \/ Return(p)

Spec == Init /\ [][Next]_vars

\* requests served one after the other
SeqNext ==
  \/ Tick
  \/ \E p \in SeqProcs :
       \/ CreateStart(p, CreateRequests)
       \/ CreateOverlapCheck(p)
       \/ CreateInsert(p)
       \/ CreateReserve(p)
       \/ UpdateStart(p, UpdateRequests)
       \/ UpdateService(p)
       \/ UpdateStatus(p)
       \/ UpdateVehicle(p)
       \/ ListStart(p, UserIds)
       \/ SweepVehicle(p)
       \/ ListSelect(p)
       \/ Return(p)

SeqSpec == Init /\ [][SeqNext]_vars

\* the POST requests of the runs with vehicle deletions: customer 2 books
\* vehicle 1 or 2 for a day
FleetCreateRequests ==
  {[user |-> 2, body |-> CreateBody(NoId, v, WholeDay, NoPrice)] : v \in {1, 2}}

\* the PUT requests of the runs with vehicle deletions: the admin marks a
\* booking returned
FleetUpdateRequests ==
  {r \in ConcUpdateRequests : Role(r.user) = "admin"}

\* bookings and vehicle deletions served concurrently
FleetNext ==
  \E p \in Procs :
    \/ CreateStart(p, FleetCreateRequests)
    \/ CreateOverlapCheck(p)
    \/ CreateInsert(p)
    \/ CreateReserve(p)
    \/ UpdateStart(p, FleetUpdateRequests)
    \/ UpdateService(p)
    \/ UpdateStatus(p)
    \/ UpdateVehicle(p)
    \/ DeleteStart(p, DeleteRequests)
    \/ DeleteVehicle(p)
    \/ Return(p)

FleetSpec == Init /\ [][FleetNext]_vars

\* the slot of a client that lists the bookings again and again
ListProcs == {"r2"}

\* the POST requests of the runs with that client: customer 2 books vehicle 1
LiveCreateRequests ==
  {[user |-> 2, body |-> CreateBody(NoId, 1, period, NoPrice)] :
     period \in {WholeDay, LaterDays}}

\* the PUT requests of the runs with that client: the cancel of customer 2
\* and the return of the admin
LiveUpdateRequests == {r \in ConcUpdateRequests : r.user \in {1, 2}}

\* bookings and updates in one slot, the listings of the admin in another
LiveNext ==
  \/ Tick
  \/ \E p \in SeqProcs :
       \/ CreateStart(p, LiveCreateRequests)
       \/ CreateOverlapCheck(p)
       \/ CreateInsert(p)
       \/ CreateReserve(p)
       \/ UpdateStart(p, LiveUpdateRequests)
       \/ UpdateService(p)
       \/ UpdateStatus(p)
       \/ UpdateVehicle(p)
       \/ Return(p)
  \/ \E p \in ListProcs :
       \/ ListStart(p, {1})
       \/ SweepVehicle(p)
       \/ ListSelect(p)
       \/ Return(p)

\* the date keeps advancing, every awaited statement of a request in progress
\* completes, and the listing client keeps asking
LiveFairness ==
  /\ WF_vars(Tick)
  /\ \A p \in SeqProcs :
       /\ WF_vars(CreateOverlapCheck(p))
       /\ WF_vars(CreateInsert(p))
       /\ WF_vars(CreateReserve(p))
       /\ WF_vars(UpdateService(p))
       /\ WF_vars(UpdateStatus(p))
       /\ WF_vars(UpdateVehicle(p))
  /\ \A p \in ListProcs :
       /\ WF_vars(ListStart(p, {1}))
       /\ WF_vars(SweepVehicle(p))
       /\ WF_vars(ListSelect(p))
       /\ WF_vars(Return(p))

LiveSpec == Init /\ [][LiveNext]_vars /\ LiveFairness

\* ----------------------------------------------------------------- claims
\* two date intervals [s1,e1) and [s2,e2) overlap unless e1 <= s2 or e2 <= s1
Overlap(s1, e1, s2, e2) == ~ (e1 <= s2 \/ e2 <= s1)

\* booking rows a and b are active, distinct, of one vehicle, and overlap
Clash(a, b) ==
  /\ a.id # b.id
  /\ a.status = "active" /\ b.status = "active"
  /\ a.vehicle_id = b.vehicle_id
  /\ Overlap(a.rent_start_date, a.rent_end_date, b.rent_start_date, b.rent_end_date)

\* the bookings table as a set of rows
Rows == {bookings[i] : i \in 1 .. Len(bookings)}

ActiveOn(v) == {b \in Rows : b.status = "active" /\ b.vehicle_id = v}

\* C1: in every reachable state no two active bookings of the same vehicle
\* have overlapping [start,end) intervals.
C1_NoOverlappingActive == \A a, b \in Rows : ~ Clash(a, b)

\* request p is a createBooking that was answered 201
Created(p) ==
  pc[p] = "done" /\ loc[p].op = "create" /\ loc[p].result.code = 201

\* C2: two createBooking calls for the same vehicle and overlapping dates that
\* run concurrently never both succeed.
C2_NoConcurrentDoubleSuccess ==
  \A p, q \in Procs :
    (p # q /\ Created(p) /\ Created(q))
      => ~ \E a, b \in Rows : /\ a.id = loc[p].booking.id
                              /\ b.id = loc[q].booking.id
                              /\ Clash(a, b)

\* no booking operation is mid-execution
Quiescent == \A p \in Procs : pc[p] \in {"idle", "done"}

\* C3: whenever no booking operation is mid-execution, a vehicle is booked
\* when an active booking references it and available when none does.
C3_AvailabilityMatchesBookings ==
  Quiescent =>
    \A v \in DOMAIN vehicles :
      vehicles[v].availability_status =
        IF ActiveOn(v) # {} THEN "booked" ELSE "available"

\* C4: a booking that is cancelled or returned never changes its status again.
C4_TerminalStatusIsFinal ==
  [][\A i \in 1 .. Len(bookings) :
       bookings[i].status # "active" => bookings'[i].status = bookings[i].status]_vars

\* request p executes the status UPDATE of updateBookings in this step
WritesStatus(p) == pc[p] = "u_status" /\ pc'[p] # "u_status"

\* the status of booking id in the table
StatusOf(id) == (CHOOSE b \in Rows : b.id = id).status

\* C5: when an updateBookingStatus call loses the race for a booking that was
\* active when it read it (the sweep or another update made it terminal first),
\* its status write is a no-op and it writes no vehicle availability.
C5_RaceLoserIsNoOp ==
  [][\A p \in Procs :
       (/\ WritesStatus(p)
        /\ loc[p].booking.status = "active"
        /\ StatusOf(loc[p].bookingId) # "active")
         => (bookings' = bookings /\ pc'[p] = "done")]_vars

\* request p has made the first of its two writes and not yet the second
BetweenWrites(p) == pc[p] \in {"c_reserve", "u_vehicle", "s_vehicles"}

\* the vehicle whose availability request p is about to write
PendingVehicle(p) ==
  IF pc[p] = "c_reserve" THEN loc[p].data.vehicle_id
  ELSE IF pc[p] = "u_vehicle" THEN loc[p].booking.vehicle_id
  ELSE Head(loc[p].rows)

\* request q reads the row of vehicle v in this step
ReadsVehicle(q, v) ==
  /\ pc[q] = "idle" /\ pc'[q] # "idle"
  /\ loc'[q].op = "create" /\ loc'[q].data.vehicle_id = v
  /\ loc'[q].result.message \notin {"Missing required fields", "Invalid rental dates"}

\* C6: the two writes of a booking operation are one unit: no other request
\* reads the vehicle while only the first write has taken effect.
C6_WritesAreOneUnit ==
  [][\A p, q \in Procs :
       (p # q /\ BetweenWrites(p)) => ~ ReadsVehicle(q, PendingVehicle(p))]_vars

\* the least number of whole days that covers the time from start to end
CeilDays(start, end) ==
  CHOOSE d \in 0 .. (end.day - start.day + 1) :
    /\ d * MsPerDay >= JSTime(end) - JSTime(start)
    /\ (d - 1) * MsPerDay < JSTime(end) - JSTime(start)

\* request p is a createBooking that has inserted its booking
Inserted(p) ==
  loc[p].op = "create" /\ pc[p] \in {"c_reserve", "done"} /\ loc[p].booking.id # 0

\* C7: the total price of a created booking is ceil(days between start and
\* end) times the daily rate of its vehicle, whatever total_price the request
\* body carries.
C7_PriceIsCeilDaysTimesRate ==
  \A p \in Procs :
    Inserted(p) =>
      \A b \in Rows :
        b.id = loc[p].booking.id =>
          /\ b.total_price =
               CeilDays(loc[p].data.rent_start_date, loc[p].data.rent_end_date)
                 * vehicles[b.vehicle_id].daily_rent_price
          /\ loc[p].booking.total_price = b.total_price

\* a booking over a partial day was created by a request that carried its own
\* total_price
C7_Witness ==
  \E p \in Procs :
    /\ Created(p)
    /\ loc[p].data.total_price = 7
    /\ loc[p].data.rent_start_date.hour # loc[p].data.rent_end_date.hour
    /\ loc[p].result.data[1].total_price = 100

\* request p runs the overlap query of createBookings in this step
RunsOverlapQuery(p) == pc[p] = "c_overlap" /\ pc'[p] # "c_overlap"

\* an active booking of the vehicle of request p overlaps its rental period
OverlapsActive(p) ==
  \E b \in ActiveOn(loc[p].data.vehicle_id) :
    Overlap(b.rent_start_date, b.rent_end_date,
            PgDate(loc[p].data.rent_start_date), PgDate(loc[p].data.rent_end_date))

\* C8: a createBooking for a vehicle that has an active booking on an
\* overlapping interval fails with Conflict: DateOverlap, inserts no booking
\* and leaves the availability unchanged.  (Stated for the creates that reach
\* the overlap query; the availability test rejects the others before it.)
C8_OverlappingCreateFails ==
  [][\A p \in Procs :
       (RunsOverlapQuery(p) /\ OverlapsActive(p))
         => /\ pc'[p] = "done"
            /\ loc'[p].result.message = "Vehicle already booked for selected dates"
            /\ bookings' = bookings
            /\ vehicles' = vehicles]_vars

\* request p is a createBooking that passes the field and date validation in
\* this step
StartsValidCreate(p) ==
  /\ pc[p] = "idle" /\ pc'[p] # "idle"
  /\ loc'[p].op = "create"
  /\ loc'[p].result.message \notin {"Missing required fields", "Invalid rental dates"}

\* C9: createBooking tests, in this order, that the vehicle exists, that it is
\* available and that no active booking of it overlaps the requested interval,
\* and reports the first test that fails.
C9_PreconditionOrder ==
  [][\A p \in Procs :
       /\ StartsValidCreate(p) =>
            LET v == loc'[p].data.vehicle_id
            IN  IF v \notin DOMAIN vehicles
                  THEN pc'[p] = "done" /\ loc'[p].result.message = "Vehicle not found"
                ELSE IF vehicles[v].availability_status # "available"
                  THEN /\ pc'[p] = "done"
                       /\ loc'[p].result.message = "Vehicle is not available"
                ELSE pc'[p] = "c_overlap"
       /\ RunsOverlapQuery(p) =>
            IF OverlapsActive(p)
              THEN /\ pc'[p] = "done"
                   /\ loc'[p].result.message = "Vehicle already booked for selected dates"
              ELSE pc'[p] = "c_insert"]_vars

\* request p, a createBooking or an updateBookingStatus, is answered with a
\* failure in this step
Fails(p) ==
  /\ pc[p] # "done" /\ pc'[p] = "done"
  /\ loc'[p].op \in {"create", "update"}
  /\ loc'[p].result.code \notin {200, 201}

\* request p has written to the store
HasWritten(p) == pc[p] \in {"c_reserve", "u_vehicle"}

\* C10: a createBooking or updateBookingStatus call that returns a failure has
\* performed no write: not in the step that fails, and not before it.
C10_FailureWritesNothing ==
  [][\A p \in Procs :
       Fails(p) => /\ bookings' = bookings
                   /\ vehicles' = vehicles
                   /\ ~ HasWritten(p)]_vars

\* a customer's cancel was refused because the rental had started, and the
\* booking is still active
C10_Witness ==
  \E p \in Procs :
    /\ pc[p] = "done"
    /\ loc[p].result.message = "Cannot cancel after rental has started"
    /\ StatusOf(loc[p].bookingId) = "active"

\* the vehicle ids of expired.rows of request p
ExpiredVehicles(p) == {loc[p].expired[i] : i \in 1 .. Len(loc[p].expired)}

\* request p is an updateBookingStatus that was answered 200
Updated(p) == pc[p] = "done" /\ loc[p].op = "update" /\ loc[p].result.code = 200

\* request p is a listBookings whose sweep has completed
Swept(p) == loc[p].op = "list" /\ pc[p] \in {"l_select", "done"}

\* C11: after a successful transition of a booking to cancelled or returned
\* (customer cancel, admin return, expiry sweep) the vehicle of that booking is
\* available.
C11_TransitionFreesVehicle ==
  \A p \in Procs :
    /\ Updated(p) =>
         /\ StatusOf(loc[p].bookingId) \in {"cancelled", "returned"}
         /\ vehicles[loc[p].booking.vehicle_id].availability_status = "available"
    /\ Swept(p) =>
         \A v \in ExpiredVehicles(p) : vehicles[v].availability_status = "available"

\* a customer has cancelled a booking that was active, and its vehicle had been
\* booked by it
C11_Witness ==
  \E p \in Procs :
    /\ Updated(p)
    /\ Role(loc[p].user) = "customer"
    /\ loc[p].booking.status = "active"
    /\ StatusOf(loc[p].bookingId) = "cancelled"

\* request p starts a listBookings in this step: the UPDATE of the sweep runs
StartsList(p) == pc[p] = "idle" /\ pc'[p] # "idle" /\ loc'[p].op = "list"

\* C12: the expiry sweep is idempotent: run again on the store the sweep has
\* just produced, on the same date, it changes no booking and returns no row,
\* so it writes no vehicle.
C12_SweepIsIdempotent ==
  [][\A p \in Procs :
       StartsList(p) => /\ SweepBookings(bookings', today) = bookings'
                        /\ SweepRows(bookings', today) = <<>>]_vars

\* a sweep has returned at least one booking
C12_Witness ==
  \E p \in Procs : loc[p].op = "list" /\ Len(loc[p].expired) > 0

\* the sweep of request p completes in this step: its loop over expired.rows ends
EndsSweep(p) == pc[p] # "l_select" /\ pc'[p] = "l_select"

\* C13: one invocation of the sweep makes every booking that is active with an
\* end date before the current date returned, not just one of them, and sets
\* the vehicle of each of them available; no such booking remains.
C13_SweepTakesAllExpired ==
  [][\A p \in Procs :
       /\ StartsList(p) =>
            /\ \A i \in 1 .. Len(bookings) :
                 Expired(bookings[i], today) =>
                   /\ bookings'[i].status = "returned"
                   /\ \E k \in 1 .. Len(loc'[p].expired) :
                        loc'[p].expired[k] = bookings[i].vehicle_id
            /\ Len(loc'[p].expired) =
                 Cardinality({i \in 1 .. Len(bookings) : Expired(bookings[i], today)})
            /\ \A i \in 1 .. Len(bookings') : ~ Expired(bookings'[i], today)
       /\ EndsSweep(p) =>
            \A k \in 1 .. Len(loc'[p].expired) :
              vehicles'[loc'[p].expired[k]].availability_status = "available"]_vars

\* one sweep has returned two bookings and has freed both their vehicles
C13_Witness ==
  \E p \in Procs :
    /\ Swept(p)
    /\ Len(loc[p].expired) = 2
    /\ \A v \in DOMAIN vehicles : vehicles[v].availability_status = "available"
    /\ \A b \in Rows : b.status = "returned"

\* a listing requested by user u shows booking row b
VisibleTo(u, b) == Role(u) = "admin" \/ b.customer_id = u

\* request p runs the SELECT of its listing in this step
SelectsList(p) == pc[p] = "l_select" /\ pc'[p] = "done"

\* C14: every listBookings call, of an admin or of a customer, completes the
\* sweep before it reads: a booking that is active with an end date before the
\* current date when the call starts is returned by the call's first statement,
\* stays returned until the listing reads, is listed with that status when the
\* caller may see it, and its vehicle is available when the listing reads.
C14_SweepBeforeRead ==
  [][\A p \in Procs :
       /\ StartsList(p) =>
            \A i \in 1 .. Len(bookings) :
              Expired(bookings[i], today) =>
                /\ bookings'[i].status = "returned"
                /\ bookings[i].vehicle_id \in ExpiredVehicles(p)'
       /\ (loc[p].op = "list" /\ pc[p] # "done") =>
            /\ Len(bookings') = Len(bookings)
            /\ \A i \in 1 .. Len(bookings) :
                 bookings[i].status = "returned" => bookings'[i].status = "returned"
            /\ ExpiredVehicles(p)' = ExpiredVehicles(p)
       /\ SelectsList(p) =>
            /\ \A b \in Rows :
                 VisibleTo(loc[p].user, b) =>
                   \E k \in 1 .. Len(loc'[p].result.data) :
                     /\ loc'[p].result.data[k].id = b.id
                     /\ loc'[p].result.data[k].status = b.status
            /\ \A v \in ExpiredVehicles(p) :
                 vehicles[v].availability_status = "available"]_vars

\* a customer's listing has returned an expired booking of that customer and
\* shows it as returned
C14_Witness ==
  \E p \in Procs :
    /\ pc[p] = "done" /\ loc[p].op = "list"
    /\ Role(loc[p].user) = "customer"
    /\ Len(loc[p].expired) > 0
    /\ \E k \in 1 .. Len(loc[p].result.data) :
         /\ loc[p].result.data[k].status = "returned"
         /\ loc[p].result.data[k].vehicle_id \in ExpiredVehicles(p)

\* the ids of the rows of the listing request p was answered with
ListedIds(p) == {loc[p].result.data[k].id : k \in 1 .. Len(loc[p].result.data)}

\* C15: listBookings of a customer returns exactly the bookings whose
\* customer_id is the requester's id, each once, and never a booking of another
\* customer; listBookings of an admin returns all bookings.
C15_ListShowsOwnBookings ==
  \A p \in Procs :
    (pc[p] = "done" /\ loc[p].op = "list") =>
      /\ ListedIds(p) = {b.id : b \in {r \in Rows : VisibleTo(loc[p].user, r)}}
      /\ Len(loc[p].result.data) = Cardinality(ListedIds(p))

\* a customer was listed an own booking while the table holds a booking of
\* another customer
C15_Witness ==
  \E p \in Procs :
    /\ pc[p] = "done" /\ loc[p].op = "list"
    /\ Role(loc[p].user) = "customer"
    /\ ListedIds(p) # {}
    /\ \E b \in Rows : b.customer_id \in CustomerIds \ {loc[p].user}

\* request p starts an updateBookingStatus in this step: the controller runs
StartsUpdate(p) == pc[p] = "idle" /\ pc'[p] # "idle" /\ loc'[p].op = "update"

\* the booking rows with the id request p names, when p starts
Named(p) == {b \in Rows : b.id = loc'[p].bookingId}

\* C16: updateBookingStatus of a customer on an existing booking of another
\* customer fails with Forbidden whatever status is requested and changes
\* neither the booking nor its vehicle; an admin is never refused as not owner.
C16_ForeignBookingForbidden ==
  [][\A p \in Procs :
       StartsUpdate(p) =>
         /\ (/\ Role(loc'[p].user) = "customer"
             /\ \E b \in Named(p) : b.customer_id # loc'[p].user)
              => /\ pc'[p] = "done"
                 /\ loc'[p].result.code = 403
                 /\ bookings' = bookings
                 /\ vehicles' = vehicles
         /\ Role(loc'[p].user) = "admin" => loc'[p].result.code # 403
         /\ (/\ Role(loc'[p].user) = "customer"
             /\ \E b \in Named(p) : b.customer_id = loc'[p].user)
              => loc'[p].result.code # 403]_vars

\* customer 3 asked to mark an active booking of customer 2 returned and was
\* refused
C16_Witness ==
  \E p \in Procs :
    /\ pc[p] = "done" /\ loc[p].op = "update"
    /\ loc[p].result.code = 403
    /\ loc[p].data.status = "returned"
    /\ StatusOf(loc[p].bookingId) = "active"

\* request p runs the service updateBookings up to its first UPDATE in this step
RunsService(p) == pc[p] = "u_service" /\ pc'[p] # "u_service"

\* the one status a role may ask for
LegalStatus(role) == IF role = "customer" THEN "cancelled" ELSE "returned"

\* the message of the refusal of a status the role may not ask for
IllegalStatusMessage(role) ==
  IF role = "customer" THEN "Customer can only cancel booking"
                       ELSE "Admin can only mark booking as returned"

\* C17: one target status is legal per role: a request that reaches the
\* service with another status (customer: returned, active, none; admin:
\* cancelled, active, none) is refused with the role's message and writes
\* nothing, and a request answered 200 asked for the status of its role.
C17_OneStatusPerRole ==
  [][\A p \in Procs :
       /\ (RunsService(p) /\ loc[p].data.status # LegalStatus(Role(loc[p].user)))
            => /\ pc'[p] = "done"
               /\ loc'[p].result.code = 400
               /\ loc'[p].result.message = IllegalStatusMessage(Role(loc[p].user))
               /\ bookings' = bookings
               /\ vehicles' = vehicles
       /\ (pc'[p] = "done" /\ loc'[p].op = "update" /\ loc'[p].result.code = 200)
            => loc'[p].data.status = LegalStatus(Role(loc'[p].user))]_vars

\* an admin asked to cancel an active booking and was refused
C17_Witness ==
  \E p \in Procs :
    /\ pc[p] = "done" /\ loc[p].op = "update"
    /\ Role(loc[p].user) = "admin"
    /\ loc[p].data.status = "cancelled"
    /\ loc[p].result.message = "Admin can only mark booking as returned"
    /\ StatusOf(loc[p].bookingId) = "active"

\* C18: a customer's cancel goes on to its writes only when the current date
\* is strictly before the rental start date of the booking; on or after the
\* start date it fails with "Cannot cancel after rental has started" and the
\* booking and its vehicle stay as they are.
C18_CancelOnlyBeforeStart ==
  [][\A p \in Procs :
       (/\ RunsService(p)
        /\ Role(loc[p].user) = "customer"
        /\ loc[p].data.status = "cancelled")
         => \A b \in Rows :
              b.id = loc[p].bookingId =>
                IF today < b.rent_start_date
                  THEN pc'[p] = "u_status"
                  ELSE /\ pc'[p] = "done"
                       /\ loc'[p].result.code = 400
                       /\ loc'[p].result.message =
                            "Cannot cancel after rental has started"
                       /\ bookings' = bookings
                       /\ vehicles' = vehicles]_vars

\* a customer's cancel on the very start date was refused; the booking is
\* active and its vehicle booked
C18_Witness ==
  \E p \in Procs :
    /\ pc[p] = "done" /\ loc[p].op = "update"
    /\ loc[p].result.message = "Cannot cancel after rental has started"
    /\ \E b \in Rows : /\ b.id = loc[p].bookingId
                       /\ b.rent_start_date = today
                       /\ b.status = "active"
                       /\ vehicles[b.vehicle_id].availability_status = "booked"

\* C19: updateBookingStatus on a booking that is cancelled or returned fails
\* for both roles and leaves the booking and its vehicle unchanged.
C19_TerminalBookingRefused ==
  [][\A p \in Procs :
       (/\ RunsService(p)
        /\ \E b \in Rows : b.id = loc[p].bookingId /\ b.status # "active")
         => /\ pc'[p] = "done"
            /\ loc'[p].result.code \notin {200, 201}
            /\ bookings' = bookings
            /\ vehicles' = vehicles]_vars

\* C20: the booking a customer creates carries the requester's own id as
\* customer_id whatever customer_id the body names; a booking for another
\* user is created by an admin only; an admin's create without customer_id
\* fails validation.
C20_CustomerBooksForSelf ==
  \A p \in Procs :
    /\ Inserted(p) =>
         \A b \in Rows :
           b.id = loc[p].booking.id =>
             /\ Role(loc[p].user) = "customer" => b.customer_id = loc[p].user
             /\ b.customer_id # loc[p].user => Role(loc[p].user) = "admin"
             /\ b.customer_id \in UserIds
    /\ (loc[p].op = "create" /\ pc[p] = "done" /\ loc[p].data.customer_id = NoId)
         => /\ Role(loc[p].user) = "admin"
            /\ loc[p].result.code = 400
            /\ loc[p].result.message = "Missing required fields"
    /\ (loc[p].op = "create" /\ loc[p].data.customer_id = NoId) => pc[p] = "done"

\* customer 3, whose request names customer 2, has created a booking of
\* customer 3
C20_Witness ==
  \E p \in Procs :
    /\ Created(p)
    /\ loc[p].user = 3
    /\ \E b \in Rows : b.id = loc[p].booking.id /\ b.customer_id = 3

\* request p runs the check for active bookings of deleteVehicleById in this step
StartsDelete(p) == pc[p] = "idle" /\ pc'[p] # "idle" /\ loc'[p].op = "delete"

\* C23: deleteVehicleById on a vehicle an active booking references fails
\* with "Vehicle has active bookings" and deletes nothing, and in every state,
\* also when a delete and a createBooking of the same vehicle interleave, the
\* vehicle of every active booking exists.
C23_NoActiveBookingOfDeletedVehicle ==
  [][/\ \A p \in Procs :
          (StartsDelete(p) /\ ActiveOn(loc'[p].data.vehicle_id) # {})
            => /\ pc'[p] = "done"
               /\ loc'[p].result.code = 400
               /\ loc'[p].result.message = "Vehicle has active bookings"
               /\ vehicles' = vehicles
     /\ \A i \in 1 .. Len(bookings') :
          bookings'[i].status = "active" => bookings'[i].vehicle_id \in DOMAIN vehicles'
    ]_vars

\* a delete passed its check for active bookings, a createBooking then
\* inserted a booking of that vehicle, and the DELETE failed
C23_Witness ==
  \E p \in Procs :
    /\ pc[p] = "done" /\ loc[p].op = "delete"
    /\ loc[p].result.code = 500
    /\ ActiveOn(loc[p].data.vehicle_id) # {}

\* the ids of the booking rows
BookingIds == {b.id : b \in Rows}

\* C21: a successful createBooking inserts exactly one new booking, with an
\* id no booking has and status active, sets the availability of its vehicle
\* to booked and returns the inserted record; it changes no other booking and
\* no other vehicle.
C21_CreateInsertsOneBooking ==
  [][\A p \in Procs :
       /\ (pc[p] = "c_insert" /\ pc'[p] = "c_reserve") =>
            /\ Len(bookings') = Len(bookings) + 1
            /\ \A i \in 1 .. Len(bookings) : bookings'[i] = bookings[i]
            /\ bookings'[Len(bookings')].id \notin BookingIds
            /\ bookings'[Len(bookings')].status = "active"
            /\ bookings'[Len(bookings')].vehicle_id = loc[p].data.vehicle_id
            /\ loc'[p].booking = bookings'[Len(bookings')]
            /\ vehicles' = vehicles
       /\ (pc[p] = "c_reserve" /\ pc'[p] = "done") =>
            /\ loc'[p].result.code = 201
            /\ loc'[p].result.data = <<loc[p].booking>>
            /\ \E i \in 1 .. Len(bookings) : bookings[i] = loc[p].booking
            /\ bookings' = bookings
            /\ DOMAIN vehicles' = DOMAIN vehicles
            /\ \A v \in DOMAIN vehicles :
                 vehicles'[v] =
                   IF v = loc[p].booking.vehicle_id
                     THEN [vehicles[v] EXCEPT !.availability_status = "booked"]
                     ELSE vehicles[v]
       /\ (pc'[p] = "done" /\ pc[p] # "done" /\ loc'[p].op = "create"
           /\ loc'[p].result.code = 201) => pc[p] = "c_reserve"]_vars

\* a second booking was created while the first booking and the other vehicle
\* stayed as they were
C21_Witness ==
  \E p \in Procs :
    /\ Created(p)
    /\ loc[p].booking.id = 2
    /\ Len(bookings) = 2
    /\ \E v \in DOMAIN vehicles : vehicles[v].availability_status = "available"

\* request p is a createBooking whose rent_end_date is not a later date than
\* its rent_start_date
DatesNotAfter(p) ==
  /\ loc[p].op = "create"
  /\ loc[p].data.rent_start_date # NoDate /\ loc[p].data.rent_end_date # NoDate
  /\ PgDate(loc[p].data.rent_end_date) <= PgDate(loc[p].data.rent_start_date)

\* C22: every booking in the store has its end date strictly after its start
\* date and a total price above 0; a createBooking whose end date is not after
\* its start date is answered with a validation failure and inserts nothing.
C22_DatesAndPriceValid ==
  /\ \A b \in Rows : b.rent_end_date > b.rent_start_date /\ b.total_price > 0
  /\ \A p \in Procs :
       DatesNotAfter(p) =>
         /\ ~ Inserted(p)
         /\ pc[p] # "c_reserve"
         /\ pc[p] = "done" => loc[p].result.code = 400
         /\ (pc[p] = "done" /\ JSTime(loc[p].data.rent_end_date)
                                 <= JSTime(loc[p].data.rent_start_date)
             /\ loc[p].data.customer_id # NoId)
              => loc[p].result.message = "Invalid rental dates"

\* a createBooking for noon of its start day was refused by the table and the
\* table holds no booking
C22_Witness ==
  \E p \in Procs :
    /\ DatesNotAfter(p)
    /\ pc[p] = "done"
    /\ loc[p].result.message = "violates check constraint"
    /\ bookings_id_seq > Len(bookings)

\* request p is a listBookings that has not yet been answered
Listing(p) == loc[p].op = "list" /\ pc[p] \in {"s_vehicles", "l_select"}

\* C24: the sweep changes only qualifying bookings: a booking that is
\* cancelled or returned, or active with an end date on or after the current
\* date, stays as it is, and the availability of a vehicle that no booking
\* transitioned by this invocation references stays as it is.
C24_SweepChangesOnlyExpired ==
  [][\A p \in Procs :
       /\ StartsList(p) =>
            /\ Len(bookings') = Len(bookings)
            /\ \A i \in 1 .. Len(bookings) :
                 (\/ bookings[i].status # "active"
                  \/ bookings[i].rent_end_date >= today)
                   => bookings'[i] = bookings[i]
            /\ ExpiredVehicles(p)' =
                 {bookings[i].vehicle_id : i \in
                    {k \in 1 .. Len(bookings) : bookings'[k] # bookings[k]}}
            /\ vehicles' = vehicles
       /\ Listing(p) =>
            /\ bookings' = bookings
            /\ \A v \in DOMAIN vehicles \ ExpiredVehicles(p) : vehicles'[v] = vehicles[v]
            /\ DOMAIN vehicles' = DOMAIN vehicles]_vars

\* a sweep has returned an expired booking and has left a booking that ends
\* today active and its vehicle booked
C24_Witness ==
  \E p \in Procs :
    /\ Swept(p) /\ Len(loc[p].expired) = 1
    /\ \E b \in Rows : /\ b.status = "active" /\ b.rent_end_date = today
                       /\ b.vehicle_id \notin ExpiredVehicles(p)
                       /\ vehicles[b.vehicle_id].availability_status = "booked"

PassesCreateChecks(p) == pc[p] = "c_overlap" /\ pc'[p] = "c_insert"

\* C26: with the requests served one after the other every vehicle has at
\* most one active booking, and a createBooking for a vehicle that has an
\* active booking never gets past its checks to the INSERT, whatever dates it
\* asks for.
C26_OneActiveBookingPerVehicle ==
  [][/\ \A v \in DOMAIN vehicles : Cardinality(ActiveOn(v)) <= 1
     /\ \A p \in Procs :
          PassesCreateChecks(p) => ActiveOn(loc[p].data.vehicle_id) = {}]_vars

\* request p is a createBooking with all its fields, dates in order and an
\* existing vehicle that no active booking references
CreateOfFreeVehicle(p) ==
  /\ loc[p].op = "create"
  /\ loc[p].data.customer_id # NoId
  /\ loc[p].data.rent_start_date # NoDate /\ loc[p].data.rent_end_date # NoDate
  /\ PgDate(loc[p].data.rent_end_date) > PgDate(loc[p].data.rent_start_date)
  /\ loc[p].data.vehicle_id \in DOMAIN vehicles
  /\ ActiveOn(loc[p].data.vehicle_id) = {}

\* C27: cancelled and returned bookings never block a new booking: a
\* createBooking with valid dates for a vehicle without an active booking
\* passes the availability test and the overlap query, inserts its booking
\* and is answered 201.
C27_TerminalBookingsDoNotBlock ==
  [][\A p \in Procs :
       /\ (pc[p] = "idle" /\ pc'[p] # "idle" /\ CreateOfFreeVehicle(p)')
            => pc'[p] = "c_overlap"
       /\ (pc[p] = "c_overlap" /\ pc'[p] # "c_overlap" /\ CreateOfFreeVehicle(p))
            => pc'[p] = "c_insert"
       /\ (pc[p] = "c_insert" /\ pc'[p] # "c_insert" /\ CreateOfFreeVehicle(p))
            => pc'[p] = "c_reserve"
       /\ (pc[p] = "c_reserve" /\ pc'[p] # "c_reserve")
            => loc'[p].result.code = 201]_vars

\* a booking was created for days that lie inside the period of a returned or
\* cancelled booking of the same vehicle
C27_Witness ==
  \E p \in Procs :
    /\ Created(p)
    /\ \E b \in Rows :
         /\ b.status # "active"
         /\ b.vehicle_id = loc[p].booking.vehicle_id
         /\ b.rent_start_date < loc[p].booking.rent_start_date
         /\ loc[p].booking.rent_end_date < b.rent_end_date

\* C29: what listBookings does to the store does not depend on the
\* requester: its sweep returns the expired bookings of every customer and
\* frees their vehicles, whoever asks.
C29_ListEffectIgnoresRequester ==
  [][\A p \in Procs :
       /\ StartsList(p) =>
            /\ Len(bookings') = Len(bookings)
            /\ \A i \in 1 .. Len(bookings) :
                 bookings'[i] =
                   IF bookings[i].status = "active" /\ bookings[i].rent_end_date < today
                     THEN [bookings[i] EXCEPT !.status = "returned"]
                     ELSE bookings[i]
            /\ ExpiredVehicles(p)' =
                 {bookings[i].vehicle_id : i \in
                    {k \in 1 .. Len(bookings) :
                       /\ bookings[k].status = "active"
                       /\ bookings[k].rent_end_date < today}}
            /\ loc'[p].rows = loc'[p].expired
            /\ vehicles' = vehicles
       /\ (pc[p] = "s_vehicles" /\ pc'[p] # "s_vehicles") =>
            /\ bookings' = bookings
            /\ DOMAIN vehicles' = DOMAIN vehicles
            /\ \A v \in DOMAIN vehicles :
                 vehicles'[v] =
                   IF v = Head(loc[p].rows)
                     THEN [vehicles[v] EXCEPT !.availability_status = "available"]
                     ELSE vehicles[v]
            /\ loc'[p].rows = Tail(loc[p].rows)
            /\ pc'[p] = IF loc'[p].rows = <<>> THEN "l_select" ELSE "s_vehicles"
       /\ SelectsList(p) => bookings' = bookings /\ vehicles' = vehicles]_vars

\* the listing of a customer has returned an expired booking of another
\* customer
C29_Witness ==
  \E p \in Procs :
    /\ Swept(p)
    /\ Role(loc[p].user) = "customer"
    /\ \E b \in Rows : /\ b.status = "returned"
                       /\ b.customer_id # loc[p].user
                       /\ b.vehicle_id \in ExpiredVehicles(p)
                       /\ \A c \in Rows : c.vehicle_id = b.vehicle_id => c.id = b.id

\* booking i becomes cancelled in this step
BecomesCancelled(i) ==
  bookings[i].status # "cancelled" /\ bookings'[i].status = "cancelled"

\* C30: every booking that is cancelled became cancelled by the status UPDATE
\* of an updateBookingStatus request of the customer role, made by the
\* booking's own customer with status cancelled and let through on a date
\* before the booking's start date; no admin request and no sweep sets a
\* booking to cancelled, and no booking is inserted as cancelled.
C30_CancelledOnlyByOwnCustomer ==
  [][/\ \A i \in 1 .. Len(bookings) :
          BecomesCancelled(i) =>
            \E p \in Procs :
              /\ pc[p] = "u_status" /\ pc'[p] = "u_vehicle"
              /\ Role(loc[p].user) = "customer"
              /\ loc[p].user = bookings[i].customer_id
              /\ loc[p].bookingId = bookings[i].id
              /\ loc[p].data.status = "cancelled"
     /\ \A i \in Len(bookings) + 1 .. Len(bookings') :
          bookings'[i].status # "cancelled"
     /\ \A p \in Procs :
          (RunsService(p) /\ pc'[p] = "u_status" /\ Role(loc[p].user) = "customer")
            => \A b \in Rows :
                 b.id = loc[p].bookingId =>
                   /\ today < b.rent_start_date
                   /\ b.customer_id = loc[p].user
                   /\ loc[p].data.status = "cancelled"]_vars

\* a customer has cancelled an own booking, and the table also holds a booking
\* the admin has marked returned
C30_Witness ==
  /\ \E b \in Rows : b.status = "cancelled"
  /\ \E b \in Rows : b.status = "returned"
  /\ \E p \in Procs : Updated(p) /\ Role(loc[p].user) = "admin"

\* booking i is active and its end date passes while the clock still runs
ActiveAndEnding(i) ==
  /\ i <= Len(bookings)
  /\ bookings[i].status = "active"
  /\ bookings[i].rent_end_date < MaxDay

\* booking i is cancelled or returned
Ended(i) == i <= Len(bookings) /\ bookings[i].status \in {"cancelled", "returned"}

\* C28: no booking stays active forever: when the date keeps advancing and
\* listBookings keeps being called, every active booking whose end date passes
\* becomes cancelled or returned and its vehicle becomes available; the sweep
\* is no timer: the passing of time alone changes no booking and no vehicle,
\* and a booking leaves active only by the UPDATE of a listing's sweep or of
\* an updateBookingStatus.
C28_NoBookingActiveForever ==
  /\ \A i \in 1 .. MaxBookings :
       ActiveAndEnding(i) ~>
         (/\ Ended(i)
          /\ vehicles[bookings[i].vehicle_id].availability_status = "available")
  /\ [][/\ today' # today => (bookings' = bookings /\ vehicles' = vehicles)
        /\ \A i \in 1 .. Len(bookings) :
             (bookings[i].status = "active" /\ bookings'[i].status # "active")
               => \E p \in Procs : StartsList(p) \/ WritesStatus(p)]_vars

\* the date has passed the end of a booking that is still active with its
\* vehicle booked, and no listing has started since
C28_Witness ==
  /\ \E b \in Rows : /\ Expired(b, today)
                     /\ vehicles[b.vehicle_id].availability_status = "booked"
  /\ \A p \in ListProcs : pc[p] = "idle"
  /\ today = MaxDay
====
